--------------------------- MODULE ServiceProofs ---------------------------
(***************************************************************************)
(* Service for any number of processes, secrets, keys and environments:    *)
(* one agent at work, on the file that was applied, with the secret that   *)
(* was given.                                                              *)
(***************************************************************************)
EXTENDS Service, TLAPS

LEMMA StripType == ASSUME NEW text \in Text PROVE Strip(text) \in Trimmed
<1>1. CASE text \in Padded
  BY <1>1, SetAssumption DEF Strip
<1>2. CASE text \notin Padded
  BY <1>2 DEF Strip, Text
<1> QED  BY <1>1, <1>2

(* What harden_secret gives is no plain secret and keeps what it was       *)
(* given, or is the env: reference of its field.                           *)
LEMMA HardenIntact ==
  ASSUME NEW text \in Text, NEW f \in Hardened, NEW k, NEW s \in Harden(text, f, k)
  PROVE  /\ s \in Trimmed /\ s \notin Secret
         /\ IF Strip(text) \in Secret
            THEN s = RefOf[f] \/ (s \in Sealed /\ s.plain = Strip(text))
            ELSE s = Strip(text)
<1> DEFINE v == Strip(text)
<1>1. v \in Trimmed  BY StripType
<1>2. RefOf[f] \in Ref  BY SetAssumption
<1> HIDE DEF v
<1>3. CASE v \notin Secret
  <2>1. s = v  BY <1>3 DEF Harden, v
  <2> QED  BY <1>1, <1>3, <2>1 DEF v
<1>4. CASE v \in Secret
  <2>1. s = RefOf[f] \/ (k \in Key /\ s = [key |-> k, plain |-> v])
    BY <1>4 DEF Harden, v
  <2>2. CASE s = RefOf[f]
    BY <1>2, <1>4, <2>2, StandInAssumption DEF Trimmed, v
  <2>3. CASE k \in Key /\ s = [key |-> k, plain |-> v]
    <3>1. s \in Sealed /\ s.plain = v  BY <1>4, <2>3 DEF Sealed
    <3> QED  BY <1>4, <3>1, StandInAssumption DEF Trimmed, v
  <2> QED  BY <2>1, <2>2, <2>3
<1> QED  BY <1>3, <1>4

(* The file setup is about to write.                                       *)
LEMMA DraftIntact ==
  ASSUME NEW v \in Answer, NEW e,
         NEW x \in Harden(v.secret["secret_key"], "secret_key", e.key),
         NEW y \in Harden(v.secret["bind_password"], "bind_password", e.key)
  PROVE  LET w == [secret |-> [f \in Hardened |-> IF f = "secret_key" THEN x ELSE y],
                   token |-> v.token, ok |-> v.ok, of |-> v.secret]
         IN  w \in Written /\ Intact(w)
<1> DEFINE w == [secret |-> [f \in Hardened |-> IF f = "secret_key" THEN x ELSE y],
                 token |-> v.token, ok |-> v.ok, of |-> v.secret]
<1>1. /\ v.secret \in [Hardened -> Text] /\ v.token \in Text /\ v.ok \in BOOLEAN
      /\ "secret_key" \in Hardened /\ "bind_password" \in Hardened
  BY DEF Answer, Hardened
<1>2. ASSUME NEW f \in Hardened
      PROVE  w.secret[f] \in Harden(v.secret[f], f, e.key)
  BY <1>2 DEF Hardened
<1>3. w.of = v.secret /\ w.secret \in [Hardened -> Trimmed]
  <2>1. \A f \in Hardened : w.secret[f] \in Trimmed
    <3> SUFFICES ASSUME NEW f \in Hardened PROVE w.secret[f] \in Trimmed
      OBVIOUS
    <3>1. v.secret[f] \in Text  BY <1>1
    <3> HIDE DEF w
    <3> QED  BY <1>2, <3>1, HardenIntact
  <2> QED  BY <2>1
<1>4. Intact(w)
  <2> SUFFICES ASSUME NEW f \in Hardened
               PROVE  IF Strip(v.secret[f]) \in Secret
                      THEN \/ w.secret[f] = RefOf[f]
                           \/ w.secret[f] \in Sealed /\ w.secret[f].plain = Strip(v.secret[f])
                      ELSE w.secret[f] = Strip(v.secret[f])
    BY <1>3 DEF Intact
  <2>1. v.secret[f] \in Text  BY <1>1
  <2> HIDE DEF w
  <2> QED  BY <1>2, <2>1, HardenIntact
<1> QED  BY <1>1, <1>3, <1>4 DEF Written
-----------------------------------------------------------------------------
(* What three invariants come from.                                        *)
LEMMA OneAgentFollows == ASSUME TypeOK, ScmAgrees PROVE OneAgent
<1> SUFFICES ASSUME NEW p \in Proc, NEW q \in Proc, p # q,
                    worker[p] \in {"loading", "running"}, worker[q] \in {"loading", "running"}
             PROVE  proc[p] = "exiting" \/ proc[q] = "exiting"
  BY DEF OneAgent
<1>1. \A r \in {p, q} : proc[r] \in {"up", "stopping", "exiting"}
  BY DEF TypeOK, ScmAgrees, Procs
<1>2. \A r \in {p, q} : proc[r] \in {"up", "stopping"} => cur = r
  BY DEF ScmAgrees
<1> QED  BY <1>1, <1>2

LEMMA SecretFollows == ASSUME FilesIntact, TypeOK PROVE SecretIntact
<1> SUFFICES ASSUME NEW p \in Proc, NEW f \in Hardened, worker[p] = "running"
             PROVE  LET of == Strip(got[p].of[f])
                        value == Resolve(got[p].secret[f], env[p])
                    IN  \/ value = Failed
                        \/ IF of \in Sealed THEN value = of.plain
                           ELSE IF of \in Ref THEN value = env[p].var[of]
                           ELSE value = of \/ (of \in Secret /\ got[p].secret[f] = RefOf[f])
  BY DEF SecretIntact
<1> DEFINE of == Strip(got[p].of[f])
           s == got[p].secret[f]
           value == Resolve(s, env[p])
<1>1. of \in Trimmed /\ RefOf[f] \in Ref
  BY StripType, SetAssumption DEF FilesIntact, Written
<1>2. IF of \in Secret THEN s = RefOf[f] \/ (s \in Sealed /\ s.plain = of) ELSE s = of
  BY DEF FilesIntact, Intact
<1> HIDE DEF of, s
<1>3. CASE of \in Secret
  <2>1. of \notin Sealed /\ of \notin Ref  BY <1>3, StandInAssumption
  <2>2. CASE s = RefOf[f]  BY <1>3, <2>1, <2>2 DEF of, s
  <2>3. CASE s \in Sealed /\ s.plain = of
    <3>1. s \notin Ref  BY <2>3, StandInAssumption
    <3>2. value \in {of, Failed}  BY <2>3, <3>1 DEF Resolve
    <3> QED  BY <2>1, <3>2 DEF of, s
  <2> QED  BY <1>2, <1>3, <2>2, <2>3
<1>4. CASE of \in Sealed
  <2>1. s = of /\ s \notin Ref  BY <1>2, <1>4, StandInAssumption
  <2>2. value \in {of.plain, Failed}  BY <1>4, <2>1 DEF Resolve
  <2> QED  BY <1>4, <2>2 DEF of, s
<1>5. CASE of \in Ref
  <2>1. s = of /\ of \notin Sealed  BY <1>2, <1>5, StandInAssumption
  <2>2. value \in {env[p].var[of], Failed}  BY <1>5, <2>1 DEF Resolve
  <2> QED  BY <1>5, <2>1, <2>2 DEF of, s
<1>6. CASE of = Empty
  <2>1. of \notin Secret /\ of \notin Sealed /\ of \notin Ref
    BY <1>6, StandInAssumption
  <2>2. value = of  BY <1>2, <2>1 DEF Resolve
  <2> QED  BY <2>1, <2>2 DEF of, s
<1> QED  BY <1>1, <1>3, <1>4, <1>5, <1>6 DEF Trimmed

LEMMA KeptFollows == ASSUME FilesIntact, TypeOK PROVE KeptOffDisk
<1> SUFFICES ASSUME file \in Written, NEW f \in Hardened PROVE file.secret[f] \notin Secret
  BY DEF KeptOffDisk
<1>1. RefOf[f] \notin Secret  BY SetAssumption, StandInAssumption
<1>2. Intact(file)  BY DEF FilesIntact
<1> QED  BY <1>1, <1>2, StandInAssumption DEF Intact
-----------------------------------------------------------------------------
LEMMA InitIInv == ASSUME Init PROVE IInv
<1>1. TypeOK
  BY SetAssumption, StandInAssumption DEF Init, TypeOK, Procs, Workers, Steps
<1>2. ScmAgrees
  BY StandInAssumption DEF Init, ScmAgrees, Held
<1>3. FilesIntact
  BY StandInAssumption DEF Init, FilesIntact
<1>4. AppliedAfterOk
  BY DEF Init, AppliedAfterOk
<1> QED  BY <1>1, <1>2, <1>3, <1>4, OneAgentFollows, SecretFollows, KeptFollows DEF IInv

(* What the SCM does, as the actions use it.                               *)
LEMMA LaunchType ==
  ASSUME TypeOK, NEW p \in Proc, Launch(p)
  PROVE  /\ proc' \in [Proc -> Procs] /\ env' \in [Proc -> Hosts \cup {Nothing}]
         /\ scm' = "startPending" /\ cur' \in Proc \cup {NoProc}
         /\ UNCHANGED <<marked, stop, worker, got>>
  BY DEF TypeOK, Launch, Procs

LEMMA StopControlType ==
  ASSUME TypeOK, StopControl
  PROVE  stop' \in [Proc -> BOOLEAN]
<1>1. CASE CanStop
  BY <1>1 DEF TypeOK, StopControl
<1>2. CASE ~CanStop
  BY <1>2 DEF TypeOK, StopControl
<1> QED  BY <1>1, <1>2

LEMMA EndedType ==
  ASSUME TypeOK, Ended
  PROVE  /\ scm' \in {"absent", "stopped"} /\ cur' = NoProc
         /\ marked' \in BOOLEAN /\ marked' = FALSE
  BY DEF Ended

LEMMA GoneType ==
  ASSUME TypeOK, NEW p \in Proc, Gone(p)
  PROVE  /\ proc' \in [Proc -> Procs] /\ stop' \in [Proc -> BOOLEAN]
         /\ worker' \in [Proc -> Workers] /\ env' \in [Proc -> Hosts \cup {Nothing}]
         /\ got' \in [Proc -> Written \cup {Nothing}]
<1>1. proc' \in [Proc -> Procs]  BY DEF TypeOK, Gone, Procs
<1>2. stop' \in [Proc -> BOOLEAN]  BY DEF TypeOK, Gone
<1>3. worker' \in [Proc -> Workers]  BY DEF TypeOK, Gone, Workers
<1>4. env' \in [Proc -> Hosts \cup {Nothing}]  BY DEF TypeOK, Gone
<1>5. got' \in [Proc -> Written \cup {Nothing}]  BY DEF TypeOK, Gone
<1> QED  BY <1>1, <1>2, <1>3, <1>4, <1>5

LEMMA TypeNext ==
  ASSUME TypeOK, ScmAgrees, FilesIntact, [Next]_vars
  PROVE  TypeOK'
<1>1. ASSUME NEW p \in Proc, StartByHand(p) PROVE TypeOK'
  BY <1>1, LaunchType DEF TypeOK, StartByHand, cmdVars
<1>2. ASSUME NEW p \in Proc, Load(p) PROVE TypeOK'
  <2>1. worker' \in [Proc -> Workers]
    BY <1>2 DEF TypeOK, Load, Workers
  <2>2. got' \in [Proc -> Written \cup {Nothing}]
    BY <1>2 DEF TypeOK, Load, Usable
  <2> QED  BY <1>2, <2>1, <2>2 DEF TypeOK, Load, scmVars, cmdVars
<1>3. ASSUME NEW p \in Proc, WorkerDies(p) PROVE TypeOK'
  <2>1. worker' \in [Proc -> Workers] /\ faults' \in Nat
    BY <1>3 DEF TypeOK, WorkerDies, Workers, Fault
  <2> QED  BY <1>3, <2>1 DEF TypeOK, WorkerDies, scmVars, cmdVars
<1>4. ASSUME NEW p \in Proc, Crash(p) PROVE TypeOK'
  <2>1. Gone(p) /\ faults' \in Nat
    BY <1>4 DEF TypeOK, Crash, Fault
  <2>2. CASE p = cur
    BY <1>4, <2>1, <2>2, GoneType, EndedType DEF TypeOK, Crash, cmdVars
  <2>3. CASE p # cur
    BY <1>4, <2>1, <2>3, GoneType DEF TypeOK, Crash, scmVars, cmdVars
  <2> QED  BY <2>2, <2>3
<1>5. ASSUME NEW p \in Proc, ServiceMain(p) PROVE TypeOK'
  <2>1. proc' \in [Proc -> Procs] /\ worker' \in [Proc -> Workers]
    BY <1>5 DEF TypeOK, ServiceMain, Procs, Workers
  <2> QED  BY <1>5, <2>1 DEF TypeOK, ServiceMain, cmdVars
<1>6. ASSUME NEW p \in Proc, ReportStopPending(p) PROVE TypeOK'
  <2>1. proc' \in [Proc -> Procs]
    BY <1>6 DEF TypeOK, ReportStopPending, Procs
  <2> QED  BY <1>6, <2>1 DEF TypeOK, ReportStopPending, cmdVars
<1>7. ASSUME NEW p \in Proc, ReportStop(p) PROVE TypeOK'
  <2>1. proc' \in [Proc -> Procs] /\ Ended
    BY <1>7 DEF TypeOK, ReportStop, Procs
  <2> QED  BY <1>7, <2>1, EndedType DEF TypeOK, ReportStop, cmdVars
<1>8. ASSUME NEW p \in Proc, Exit(p) PROVE TypeOK'
  BY <1>8, GoneType DEF TypeOK, Exit, scmVars, cmdVars
<1>9. CASE StopByHand
  BY <1>9, StopControlType DEF TypeOK, StopByHand, scmVars, cmdVars
<1>10. CASE \E h \in Hosts : EditHost(h)
  BY <1>10 DEF TypeOK, EditHost, scmVars, procVars, cmdVars
<1>11. ASSUME NEW v \in Answers, NEW e \in Shells,
              Setup(v, e)
       PROVE  TypeOK'
  <2>1. v \in Answer /\ e \in Host  BY SetAssumption
  <2>2. CASE e.key = BadKey
    BY <1>11, <2>2 DEF TypeOK, Setup, scmVars, procVars
  <2>3. CASE e.key # BadKey
    <3>1. draft' \in Written
      BY <1>11, <2>1, <2>3, DraftIntact DEF Setup
    <3>2. pc' \in Steps /\ shell' \in Host
      BY <1>11, <2>1, <2>3 DEF Setup, Steps
    <3> QED  BY <1>11, <3>1, <3>2 DEF TypeOK, Setup, scmVars, procVars
  <2> QED  BY <2>2, <2>3
<1>12. CASE Truncate
  BY <1>12 DEF TypeOK, Truncate, Steps, scmVars, procVars
<1>13. CASE Fill
  <2>1. draft \in Written
    BY <1>13 DEF Fill, FilesIntact
  <2> QED  BY <1>13, <2>1 DEF TypeOK, Fill, Steps, scmVars, procVars
<1>14. CASE Check
  BY <1>14 DEF TypeOK, Check, Steps, scmVars, procVars
<1>15. CASE EnsureStop
  <2>1. stop' \in [Proc -> BOOLEAN] /\ pc' \in Steps
    BY <1>15, StopControlType DEF TypeOK, EnsureStop, Steps
  <2> QED  BY <1>15, <2>1 DEF TypeOK, EnsureStop, scmVars
<1>16. CASE Install
  BY <1>16 DEF TypeOK, Install, Steps, scmVars, procVars
<1>17. CASE Create
  BY <1>17 DEF TypeOK, Create, Steps, procVars
<1>18. CASE Start
  <2>1. CASE \E p \in Proc : Launch(p) /\ outcome' = "ok"
    BY <1>18, <2>1, LaunchType DEF TypeOK, Start, Steps
  <2>2. CASE outcome' = "refused" /\ UNCHANGED <<scmVars, procVars>>
    BY <1>18, <2>2 DEF TypeOK, Start, Steps, scmVars, procVars
  <2> QED  BY <1>18, <2>1, <2>2 DEF Start
<1>19. CASE Uninstall
  BY <1>19, StopControlType DEF TypeOK, Uninstall, Steps, scmVars
<1>20. CASE Delete
  <2>1. pc' \in Steps  BY <1>20 DEF Delete, Steps
  <2>2. scm' \in {scm, "absent"} /\ marked' \in BOOLEAN
    BY <1>20 DEF TypeOK, Delete
  <2> QED  BY <1>20, <2>1, <2>2 DEF TypeOK, Delete, procVars
<1>21. CASE Abort
  BY <1>21 DEF TypeOK, Abort, Fault, Steps, scmVars, procVars
<1>22. CASE UNCHANGED vars
  BY <1>22 DEF TypeOK, vars, scmVars, procVars, cmdVars
<1> QED  BY <1>1, <1>2, <1>3, <1>4, <1>5, <1>6, <1>7, <1>8, <1>9, <1>10, <1>11, <1>12,
            <1>13, <1>14, <1>15, <1>16, <1>17, <1>18, <1>19, <1>20, <1>21, <1>22 DEF Next
-----------------------------------------------------------------------------
(* ScmAgrees speaks of these variables only, ...                           *)
LEMMA ScmUntouched ==
  ASSUME ScmAgrees, UNCHANGED <<scm, marked, cur, proc, worker, env>>
  PROVE  ScmAgrees'
  BY DEF ScmAgrees, Held

(* ... and these steps touch none of them.                                 *)
LEMMA Elsewhere ==
  ASSUME \/ StopByHand \/ \E h \in Hosts : EditHost(h)
         \/ \E v \in Answers, e \in Shells : Setup(v, e)
         \/ Truncate \/ Fill \/ Check \/ EnsureStop \/ Install \/ Uninstall \/ Abort
         \/ UNCHANGED vars
  PROVE  UNCHANGED <<scm, marked, cur, proc, worker, env, got>>
  BY DEF StopByHand, EditHost, Setup, Truncate, Fill, Check, EnsureStop, Install, Uninstall,
         Abort, vars, scmVars, procVars

LEMMA LaunchAgrees ==
  ASSUME TypeOK, ScmAgrees, NEW p \in Proc, CanStart, Launch(p)
  PROVE  ScmAgrees'
<1>1. cur = NoProc /\ ~marked /\ p # NoProc /\ proc[p] = "gone" /\ worker[p] = "none"
  BY StandInAssumption DEF ScmAgrees, CanStart, Launch
<1>2. \A q \in Proc : q # p => /\ proc'[q] = proc[q] /\ env'[q] = env[q]
                              /\ ~Held(q) /\ worker'[q] = worker[q]
  BY <1>1, StandInAssumption DEF TypeOK, ScmAgrees, Launch, Held
<1>3. proc'[p] = "starting" /\ env'[p] = host /\ host \in Hosts /\ worker'[p] = "none"
  BY <1>1 DEF TypeOK, Launch
<1>4. scm' = "startPending" /\ cur' = p /\ marked' = FALSE
  BY <1>1 DEF Launch, TypeOK
<1>5. ASSUME NEW q \in Proc
      PROVE  /\ proc'[q] = "starting" => cur' = q /\ scm' = "startPending"
             /\ proc'[q] = "up"       => cur' = q /\ scm' = "running"
             /\ proc'[q] = "stopping" => cur' = q /\ scm' = "stopPending"
             /\ cur' = q => Held(q)'
             /\ proc'[q] # "gone" => env'[q] \in Hosts
             /\ worker'[q] = "none" <=> proc'[q] \in {"gone", "starting"}
  <2>1. CASE q = p  BY <1>3, <1>4, <2>1 DEF Held
  <2>2. CASE q # p  BY <1>2, <1>4, <2>2 DEF Held, ScmAgrees
  <2> QED  BY <2>1, <2>2
<1> QED  BY <1>1, <1>4, <1>5 DEF ScmAgrees

(* The process the SCM had is its no more.                                 *)
LEMMA EndedAgrees ==
  ASSUME TypeOK, ScmAgrees, NEW p \in Proc, Ended,
         proc' \in [Proc -> Procs], proc'[p] \in {"exiting", "gone"},
         p = cur,
         proc'[p] # "gone" => env'[p] \in Hosts,
         worker'[p] = "none" <=> proc'[p] = "gone",
         \A q \in Proc : q # p => /\ proc'[q] = proc[q] /\ env'[q] = env[q]
                                 /\ worker'[q] = worker[q]
  PROVE  ScmAgrees'
<1>1. scm' \in {"absent", "stopped"} /\ cur' = NoProc /\ marked' = FALSE
  BY EndedType
<1>2. ASSUME NEW q \in Proc
      PROVE  /\ proc'[q] \notin {"starting", "up", "stopping"}
             /\ proc'[q] # "gone" => env'[q] \in Hosts
             /\ worker'[q] = "none" <=> proc'[q] \in {"gone", "starting"}
  <2>1. CASE q = p  BY <2>1
  <2>2. CASE q # p  BY <2>2 DEF ScmAgrees, Held
  <2> QED  BY <2>1, <2>2
<1>3. \A q \in Proc : cur' # q
  BY <1>1, StandInAssumption
<1> QED  BY <1>1, <1>2, <1>3 DEF ScmAgrees, Held

LEMMA ScmNext ==
  ASSUME TypeOK, TypeOK', ScmAgrees, [Next]_vars
  PROVE  ScmAgrees'
<1>1. ASSUME NEW p \in Proc, StartByHand(p) PROVE ScmAgrees'
  BY <1>1, LaunchAgrees DEF StartByHand
<1>2. ASSUME NEW p \in Proc, Load(p) \/ WorkerDies(p) PROVE ScmAgrees'
  <2>1. /\ worker[p] \in {"loading", "running"} /\ worker'[p] # "none"
        /\ \A q \in Proc : q # p => worker'[q] = worker[q]
        /\ UNCHANGED <<scm, marked, cur, proc, env>>
    BY <1>2 DEF TypeOK, Load, WorkerDies, scmVars
  <2> QED  BY <2>1 DEF ScmAgrees, Held
<1>3. ASSUME NEW p \in Proc, Crash(p) PROVE ScmAgrees'
  <2>1. /\ proc'[p] = "gone" /\ worker'[p] = "none"
        /\ \A q \in Proc : q # p => /\ proc'[q] = proc[q] /\ env'[q] = env[q]
                                   /\ worker'[q] = worker[q]
    BY <1>3 DEF TypeOK, Crash, Gone
  <2>2. CASE p = cur
    <3>1. Ended  BY <1>3, <2>2 DEF Crash
    <3> QED  BY <2>1, <2>2, <3>1, EndedAgrees DEF TypeOK
  <2>3. CASE p # cur
    <3>1. UNCHANGED <<scm, marked, cur>>  BY <1>3, <2>3 DEF Crash, scmVars
    <3> QED  BY <2>1, <2>3, <3>1 DEF ScmAgrees, Held
  <2> QED  BY <2>2, <2>3
<1>4. ASSUME NEW p \in Proc, ServiceMain(p) PROVE ScmAgrees'
  <2>1. /\ proc[p] = "starting" /\ proc'[p] = "up" /\ worker'[p] = "loading"
        /\ scm' = "running" /\ UNCHANGED <<marked, cur, env>>
        /\ \A q \in Proc : q # p => proc'[q] = proc[q] /\ worker'[q] = worker[q]
    BY <1>4 DEF TypeOK, ServiceMain
  <2>2. cur = p /\ p # NoProc  BY <2>1, StandInAssumption DEF ScmAgrees
  <2> QED  BY <2>1, <2>2 DEF ScmAgrees, Held
<1>5. ASSUME NEW p \in Proc, ReportStopPending(p) PROVE ScmAgrees'
  <2>1. /\ proc[p] = "up" /\ proc'[p] = "stopping"
        /\ scm' = "stopPending" /\ UNCHANGED <<marked, cur, env, worker>>
        /\ \A q \in Proc : q # p => proc'[q] = proc[q]
    BY <1>5 DEF TypeOK, ReportStopPending
  <2>2. cur = p /\ p # NoProc  BY <2>1, StandInAssumption DEF ScmAgrees
  <2> QED  BY <2>1, <2>2 DEF ScmAgrees, Held
<1>6. ASSUME NEW p \in Proc, ReportStop(p) PROVE ScmAgrees'
  <2>1. /\ proc[p] = "stopping" /\ proc'[p] = "exiting" /\ UNCHANGED <<env, worker>>
        /\ \A q \in Proc : q # p => proc'[q] = proc[q]
        /\ Ended
    BY <1>6 DEF TypeOK, ReportStop
  <2>2. cur = p /\ env[p] \in Hosts /\ worker[p] # "none"  BY <2>1 DEF ScmAgrees
  <2> QED  BY <2>1, <2>2, EndedAgrees DEF TypeOK
<1>7. ASSUME NEW p \in Proc, Exit(p) PROVE ScmAgrees'
  <2>1. /\ proc[p] = "exiting" /\ proc'[p] = "gone" /\ worker'[p] = "none"
        /\ \A q \in Proc : q # p => /\ proc'[q] = proc[q] /\ env'[q] = env[q]
                                   /\ worker'[q] = worker[q]
        /\ UNCHANGED <<scm, marked, cur>>
    BY <1>7 DEF TypeOK, Exit, Gone, scmVars
  <2>2. cur # p  BY <2>1 DEF ScmAgrees, Held
  <2> QED  BY <2>1, <2>2 DEF ScmAgrees, Held
<1>8. CASE Start
  <2>1. CASE CanStart /\ \E p \in Proc : Launch(p)
    BY <2>1, LaunchAgrees
  <2>2. CASE UNCHANGED <<scmVars, procVars>>
    BY <2>2, ScmUntouched DEF scmVars, procVars
  <2> QED  BY <1>8, <2>1, <2>2 DEF Start
<1>9. CASE Create
  BY <1>9 DEF Create, procVars, ScmAgrees, Held
<1>10. CASE Delete
  <2>1. UNCHANGED <<cur, proc, worker, env>>
    BY <1>10 DEF Delete, procVars
  <2>2. CASE scm \in {"stopped", "absent"}
    <3>1. scm' = "absent" /\ UNCHANGED marked
      BY <1>10, <2>2 DEF Delete
    <3> QED  BY <2>1, <2>2, <3>1 DEF ScmAgrees, Held
  <2>3. CASE scm \notin {"stopped", "absent"}
    <3>1. marked' /\ UNCHANGED scm
      BY <1>10, <2>3 DEF Delete
    <3> QED  BY <2>1, <2>3, <3>1 DEF ScmAgrees, Held
  <2> QED  BY <2>2, <2>3
<1>11. CASE \/ StopByHand \/ \E h \in Hosts : EditHost(h)
            \/ \E v \in Answers, e \in Shells : Setup(v, e)
            \/ Truncate \/ Fill \/ Check \/ EnsureStop \/ Install \/ Uninstall \/ Abort
            \/ UNCHANGED vars
  BY <1>11, Elsewhere, ScmUntouched
<1> QED  BY <1>1, <1>2, <1>3, <1>4, <1>5, <1>6, <1>7, <1>8, <1>9, <1>10, <1>11 DEF Next
-----------------------------------------------------------------------------
(* What a worker runs with is touched by its loading and its end only.     *)
Load0(p) == worker[p] = "running" =>
              got[p] \in Written /\ Intact(got[p]) /\ Usable(got[p], env[p])

LEMMA WorkersIntact ==
  ASSUME TypeOK, ScmAgrees, FilesIntact, [Next]_vars
  PROVE  \A p \in Proc : Load0(p)'
<1> SUFFICES ASSUME NEW q \in Proc, worker'[q] = "running"
             PROVE  got'[q] \in Written /\ Intact(got'[q]) /\ Usable(got'[q], env'[q])
  BY DEF Load0, Intact, Usable, Resolve
<1>0. Load0(q)  BY DEF FilesIntact, Load0
<1>1. ASSUME worker[q] = "running", UNCHANGED <<got[q], env[q]>>
      PROVE  got'[q] \in Written /\ Intact(got'[q]) /\ Usable(got'[q], env'[q])
  BY <1>0, <1>1 DEF Load0
<1>2. ASSUME NEW p \in Proc, Launch(p)
      PROVE  worker[q] = "running" /\ UNCHANGED <<got[q], env[q]>>
  <2>1. worker[q] = "running" /\ UNCHANGED got  BY <1>2 DEF Launch
  <2>2. p # q  BY <1>2, <2>1 DEF Launch, ScmAgrees
  <2> QED  BY <1>2, <2>1, <2>2 DEF Launch, TypeOK
<1>3. ASSUME NEW p \in Proc, Gone(p)
      PROVE  worker[q] = "running" /\ UNCHANGED <<got[q], env[q]>>
  <2>1. p # q  BY <1>3 DEF Gone, TypeOK
  <2> QED  BY <1>3, <2>1 DEF Gone, TypeOK
<1>4. CASE \E p \in Proc : StartByHand(p)
  BY <1>1, <1>2, <1>4 DEF StartByHand
<1>5. CASE \E p \in Proc : Crash(p) \/ Exit(p)
  BY <1>1, <1>3, <1>5 DEF Crash, Exit
<1>6. ASSUME NEW p \in Proc, Load(p)
      PROVE  got'[q] \in Written /\ Intact(got'[q]) /\ Usable(got'[q], env'[q])
  <2>1. CASE p = q
    <3>1. Usable(file, env[q])  BY <1>6, <2>1 DEF Load, TypeOK
    <3>2. got'[q] = file /\ env'[q] = env[q]
      BY <1>6, <2>1, <3>1 DEF Load, TypeOK
    <3>3. file \in Written  BY <3>1 DEF TypeOK, Usable
    <3>4. Intact(file)  BY <3>3 DEF FilesIntact
    <3> QED  BY <3>1, <3>2, <3>3, <3>4
  <2>2. CASE p # q
    <3>1. worker[q] = "running" /\ UNCHANGED <<got[q], env[q]>>
      BY <1>6, <2>2 DEF Load, TypeOK
    <3> QED  BY <3>1, <1>1
  <2> QED  BY <2>1, <2>2
<1>7. ASSUME NEW p \in Proc,
             \/ WorkerDies(p) \/ ServiceMain(p) \/ ReportStopPending(p) \/ ReportStop(p)
      PROVE  got'[q] \in Written /\ Intact(got'[q]) /\ Usable(got'[q], env'[q])
  <2>1. worker[q] = "running" /\ UNCHANGED <<got, env>>
    BY <1>7 DEF WorkerDies, ServiceMain, ReportStopPending, ReportStop, TypeOK
  <2> QED  BY <2>1, <1>1
<1>8. CASE Start
  <2>1. CASE \E p \in Proc : Launch(p)  BY <2>1, <1>1, <1>2
  <2>2. CASE UNCHANGED <<scmVars, procVars>>
    BY <2>2, <1>1 DEF procVars
  <2> QED  BY <1>8, <2>1, <2>2 DEF Start
<1>9. CASE Create \/ Delete
  BY <1>1, <1>9 DEF Create, Delete, procVars
<1>10. CASE \/ StopByHand \/ \E h \in Hosts : EditHost(h)
            \/ \E v \in Answers, e \in Shells : Setup(v, e)
            \/ Truncate \/ Fill \/ Check \/ EnsureStop \/ Install \/ Uninstall \/ Abort
            \/ UNCHANGED vars
  BY <1>1, <1>10, Elsewhere
<1> QED  BY <1>4, <1>5, <1>6, <1>7, <1>8, <1>9, <1>10 DEF Next

(* The command, its draft and the file.                                    *)
Papers == /\ file \in Written => Intact(file)
          /\ draft \in Written => Intact(draft)
          /\ draft \in Written <=> pc \in {"truncate", "fill"}
          /\ shell \in Host <=> pc \in {"truncate", "fill", "check"}
          /\ pc = "check" => file \in Written
          /\ outcome = "ok" => pc \in {"idle", "delete"}

LEMMA PapersNext ==
  ASSUME TypeOK, Papers, [Next]_vars
  PROVE  Papers'
<1>1. ASSUME UNCHANGED <<file, draft, shell, pc, outcome>> PROVE Papers'
  BY <1>1 DEF Papers
<1>2. CASE \E p \in Proc : \/ StartByHand(p) \/ Load(p) \/ WorkerDies(p) \/ Crash(p)
                         \/ ServiceMain(p) \/ ReportStopPending(p) \/ ReportStop(p) \/ Exit(p)
  BY <1>1, <1>2 DEF StartByHand, Load, WorkerDies, Crash, ServiceMain, ReportStopPending,
                    ReportStop, Exit, cmdVars
<1>3. CASE StopByHand \/ (\E h \in Hosts : EditHost(h)) \/ UNCHANGED vars
  BY <1>1, <1>3 DEF StopByHand, EditHost, vars, cmdVars
<1>4. ASSUME NEW v \in Answers, NEW e \in Shells, Setup(v, e)
      PROVE  Papers'
  <2>1. v \in Answer /\ e \in Host  BY SetAssumption
  <2>2. CASE e.key = BadKey
    BY <1>4, <2>2 DEF Setup, Papers
  <2>3. CASE e.key # BadKey
    <3>1. pc' = "truncate" /\ shell' = e /\ outcome' = "none" /\ file' = file
      BY <1>4, <2>3 DEF Setup
    <3>2. draft' \in Written /\ Intact(draft')
      BY <1>4, <2>1, <2>3, DraftIntact DEF Setup
    <3> QED  BY <2>1, <3>1, <3>2 DEF Papers, Intact
  <2> QED  BY <2>2, <2>3
<1>5. CASE Truncate
  BY <1>5, StandInAssumption DEF Truncate, Papers
<1>6. CASE Fill
  <2>1. draft \in Written /\ Intact(draft) /\ outcome # "ok"
    BY <1>6 DEF Fill, Papers
  <2>2. file' = draft /\ draft' \notin Written /\ pc' = "check" /\ outcome' = outcome
        /\ shell' = shell
    BY <1>6, StandInAssumption DEF Fill
  <2> QED  BY <2>1, <2>2 DEF Papers
<1>7. CASE Check
  <2>1. /\ pc = "check" /\ pc' \in {"idle", "stop"} /\ shell' \notin Host
        /\ UNCHANGED <<file, draft, outcome>>
    BY <1>7, StandInAssumption DEF Check
  <2> QED  BY <2>1 DEF Papers
<1>8. CASE EnsureStop \/ Install \/ Create \/ Start \/ Uninstall \/ Delete
  <2>1. /\ pc \notin {"truncate", "fill", "check"}
        /\ pc' \in {"idle", "create", "start", "delete"}
        /\ UNCHANGED <<file, draft, shell>>
        /\ outcome' = "ok" => pc' \in {"idle", "delete"}
    BY <1>8 DEF EnsureStop, Install, Create, Start, Uninstall, Delete, Papers
  <2> QED  BY <2>1 DEF Papers
<1>9. CASE Abort
  <2>1. draft' \notin Written /\ shell' \notin Host /\ pc' = "idle" /\ UNCHANGED file
    BY <1>9, StandInAssumption DEF Abort
  <2> QED  BY <2>1 DEF Papers
<1> QED  BY <1>2, <1>3, <1>4, <1>5, <1>6, <1>7, <1>8, <1>9 DEF Next

LEMMA FilesNext ==
  ASSUME TypeOK, ScmAgrees, FilesIntact, [Next]_vars
  PROVE  FilesIntact'
<1>1. Papers  BY DEF FilesIntact, Papers
<1>2. Papers'  BY <1>1, PapersNext
<1>3. \A p \in Proc : Load0(p)'  BY WorkersIntact
<1> QED  BY <1>2, <1>3 DEF FilesIntact, Papers, Load0
-----------------------------------------------------------------------------
(* What AppliedAfterOk says of one process.                                *)
Applied(p) == Held(p) => /\ worker[p] = "running" => got[p] = file
                         /\ worker[p] = "ended" => ~Usable(file, env[p])

LEMMA AppliedNext ==
  ASSUME TypeOK, ScmAgrees, FilesIntact, AppliedAfterOk, [Next]_vars
  PROVE  AppliedAfterOk'
<1> SUFFICES ASSUME outcome' = "ok", NEW q \in Proc
             PROVE  Applied(q)'
  BY DEF AppliedAfterOk, Applied, Held, Usable, Resolve
<1>0. outcome = "ok" => Applied(q)
  BY DEF AppliedAfterOk, Applied
<1>1. ASSUME outcome = "ok", UNCHANGED <<file, worker[q], got[q], env[q]>>, Held(q)' => Held(q)
      PROVE  Applied(q)'
  BY <1>0, <1>1 DEF Applied, Usable, Resolve
<1>2. ASSUME NEW p \in Proc, CanStart, Launch(p)
      PROVE  Applied(q)'
  <2>1. CASE q = p
    <3>1. worker'[q] = "none"  BY <1>2, <2>1 DEF Launch, ScmAgrees
    <3> QED  BY <3>1 DEF Applied
  <2>2. CASE q # p
    <3>1. proc'[q] = proc[q]  BY <1>2, <2>2 DEF Launch, TypeOK
    <3>2. ~Held(q)
      BY <1>2, StandInAssumption DEF CanStart, ScmAgrees, Held
    <3> QED  BY <3>1, <3>2 DEF Applied, Held
  <2> QED  BY <2>1, <2>2
<1>3. CASE \E p \in Proc : StartByHand(p)
  BY <1>2, <1>3 DEF StartByHand
<1>4. CASE Start
  <2>1. CASE CanStart /\ \E p \in Proc : Launch(p)  BY <1>2, <2>1
  <2>2. CASE outcome' = "refused"  BY <2>2
  <2> QED  BY <1>4, <2>1, <2>2 DEF Start
<1>5. ASSUME NEW p \in Proc, Crash(p) \/ Exit(p) PROVE Applied(q)'
  <2>1. Gone(p) /\ UNCHANGED <<file, outcome>>
    BY <1>5 DEF Crash, Exit, cmdVars
  <2>2. CASE q = p
    <3>1. proc'[q] = "gone"  BY <2>1, <2>2 DEF Gone, TypeOK
    <3> QED  BY <3>1 DEF Applied, Held
  <2>3. CASE q # p
    <3>1. UNCHANGED <<proc[q], worker[q], got[q], env[q]>>
      BY <2>1, <2>3 DEF Gone, TypeOK
    <3> QED  BY <2>1, <3>1, <1>1 DEF Held
  <2> QED  BY <2>2, <2>3
<1>6. ASSUME NEW p \in Proc, Load(p) PROVE Applied(q)'
  <2>1. UNCHANGED <<file, outcome, proc, env>>
    BY <1>6 DEF Load, cmdVars
  <2>2. CASE q # p
    <3>1. UNCHANGED <<worker[q], got[q]>>  BY <1>6, <2>2 DEF Load, TypeOK
    <3> QED  BY <2>1, <3>1, <1>1 DEF Held
  <2>3. CASE q = p /\ Usable(file, env[p])
    <3>1. worker'[q] = "running" /\ got'[q] = file
      BY <1>6, <2>3 DEF Load, TypeOK
    <3> QED  BY <2>1, <3>1 DEF Applied
  <2>4. CASE q = p /\ ~Usable(file, env[p])
    <3>1. worker'[q] = "ended"  BY <1>6, <2>4 DEF Load, TypeOK
    <3> QED  BY <2>1, <2>4, <3>1 DEF Applied, Usable, Resolve
  <2> QED  BY <2>2, <2>3, <2>4
<1>7. ASSUME NEW p \in Proc, WorkerDies(p) \/ ServiceMain(p) PROVE Applied(q)'
  <2>1. UNCHANGED <<file, outcome, env, got>>
    BY <1>7 DEF WorkerDies, ServiceMain, cmdVars
  <2>2. CASE q = p
    <3>1. worker'[q] \in {"died", "loading"}
      BY <1>7, <2>2 DEF WorkerDies, ServiceMain, TypeOK
    <3> QED  BY <3>1 DEF Applied
  <2>3. CASE q # p
    <3>1. UNCHANGED <<proc[q], worker[q]>>
      BY <1>7, <2>3 DEF WorkerDies, ServiceMain, TypeOK
    <3> QED  BY <2>1, <3>1, <1>1 DEF Held
  <2> QED  BY <2>2, <2>3
<1>8. ASSUME NEW p \in Proc, ReportStopPending(p) \/ ReportStop(p) PROVE Applied(q)'
  <2>1. UNCHANGED <<file, outcome, env, got, worker>>
    BY <1>8 DEF ReportStopPending, ReportStop, cmdVars
  <2>2. Held(q)' => Held(q)
    BY <1>8 DEF ReportStopPending, ReportStop, TypeOK, Held
  <2> QED  BY <2>1, <2>2, <1>1
<1>9. CASE \/ Create \/ Delete \/ StopByHand \/ EnsureStop \/ Uninstall \/ Abort \/ Check
           \/ \E h \in Hosts : EditHost(h)
           \/ UNCHANGED vars
  <2>1. UNCHANGED <<file, proc, worker, env, got, outcome>>
    BY <1>9 DEF Create, Delete, StopByHand, EnsureStop, Uninstall, Abort, Check, EditHost, vars,
                scmVars, procVars, cmdVars
  <2> QED  BY <2>1, <1>1 DEF Held
<1>10. CASE \/ Truncate \/ Fill \/ Install
            \/ \E v \in Answers, e \in Shells : Setup(v, e)
  <2>1. outcome' # "ok"
    BY <1>10 DEF Truncate, Fill, Install, Setup, FilesIntact
  <2> QED  BY <2>1
<1> QED  BY <1>3, <1>4, <1>5, <1>6, <1>7, <1>8, <1>9, <1>10 DEF Next
-----------------------------------------------------------------------------
LEMMA NextIInv == ASSUME IInv, [Next]_vars PROVE IInv'
<1> USE DEF IInv
<1>1. TypeOK'  BY TypeNext
<1>2. ScmAgrees'  BY <1>1, ScmNext
<1>3. FilesIntact'  BY FilesNext
<1>4. AppliedAfterOk'  BY AppliedNext
<1>5. OneAgent'
  <2>1. TypeOK /\ ScmAgrees => OneAgent  BY OneAgentFollows
  <2> QED  BY <1>1, <1>2, OneAgentFollows, PTL
<1>6. SecretIntact' /\ KeptOffDisk'
  BY <1>1, <1>3, SecretFollows, KeptFollows, PTL
<1> QED  BY <1>1, <1>2, <1>3, <1>4, <1>5, <1>6

(* The inductive invariant holds in every state.                           *)
THEOREM IInvHolds == Spec => []IInv
<1>1. Init => IInv  BY InitIInv
<1>2. IInv /\ [Next]_vars => IInv'  BY NextIInv
<1> QED  BY <1>1, <1>2, PTL DEF Spec

(* Types of every variable.                                                *)
THEOREM TypeCorrect == Spec => []TypeOK
<1>1. IInv => TypeOK  BY DEF IInv
<1> QED  BY <1>1, IInvHolds, PTL

(* Two agents overlap only between run_service's report of Stopped and its *)
(* exit.                                                                   *)
THEOREM OneAgentHolds == Spec => []OneAgent
<1>1. IInv => OneAgent  BY DEF IInv
<1> QED  BY <1>1, IInvHolds, PTL

(* Once ensure_running or install has returned Ok, the service works with  *)
(* the config file as it is.                                               *)
THEOREM AppliedAfterOkHolds == Spec => []AppliedAfterOk
<1>1. IInv => AppliedAfterOk  BY DEF IInv
<1> QED  BY <1>1, IInvHolds, PTL

(* An agent runs with the secret setup was given, or the one its           *)
(* environment gives it: harden_secret and Config::resolve.                *)
THEOREM SecretIntactHolds == Spec => []SecretIntact
<1>1. IInv => SecretIntact  BY DEF IInv
<1> QED  BY <1>1, IInvHolds, PTL

(* harden_secret never lets a value it is given reach the file.            *)
THEOREM KeptOffDiskHolds == Spec => []KeptOffDisk
<1>1. IInv => KeptOffDisk  BY DEF IInv
<1> QED  BY <1>1, IInvHolds, PTL
=============================================================================

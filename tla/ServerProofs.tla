---------------------------- MODULE ServerProofs ----------------------------
(***************************************************************************)
(* ServerLifecycle keeps its invariants for any connections, jobs and      *)
(* timeouts.  Inv says why nobody waits on a closed pool (the server has   *)
(* stopped listening and no connection is left) and why no handler runs    *)
(* beside the start of the database (one needs the routes, the other ends  *)
(* when they are mounted).                                                 *)
(***************************************************************************)
EXTENDS ServerLifecycle, TLAPS

Inv ==
    /\ TypeOK
    /\ draining => ~ listening /\ open = {}
    /\ \A c \in Conns : Running(c) => mounted
    /\ Running(Startup) => ~ mounted
    /\ exit = "graceful" => draining
    /\ exit = "startup failed" => ~ mounted

LEMMA NoJobState ==
  /\ NoJob \in JobState /\ NoJob.pc = "none" /\ NoJob.left = 0
  /\ \A n \in 1..MaxStatements :
        [pc |-> "js", left |-> n] \in JobState
BY ServerAssumption DEF NoJob, JobState

LEMMA InitInv == Init => Inv
<1> SUFFICES ASSUME Init PROVE Inv
  OBVIOUS
<1>1. PICK n \in 1..MaxStatements :
        job = [j \in Jobs |-> IF j = Startup THEN [pc |-> "js", left |-> n] ELSE NoJob]
  BY DEF Init
<1>2. TypeOK
  <2>1. job \in [Jobs -> JobState]
    BY <1>1, NoJobState
  <2>2. \A j \in Jobs : Running(j) <=> job[j].left > 0
    <3>1. n \in Nat /\ n > 0
      BY ServerAssumption
    <3> SUFFICES ASSUME NEW j \in Jobs PROVE Running(j) <=> job[j].left > 0
      OBVIOUS
    <3>2. CASE j = Startup
      <4>1. job[j] = [pc |-> "js", left |-> n]
        BY <1>1, <3>2
      <4> QED BY <3>1, <4>1 DEF Running
    <3>3. CASE j # Startup
      <4>1. job[j] = NoJob
        BY <1>1, <3>3
      <4> QED BY <4>1, NoJobState DEF Running
    <3> QED BY <3>2, <3>3
  <2>3. clock \in 0..MaxTime
    BY ServerAssumption DEF Init
  <2> QED BY <2>1, <2>2, <2>3 DEF Init, TypeOK
<1>3. \A c \in Conns : ~ Running(c)
  BY <1>1, ServerAssumption DEF Running, NoJob, Jobs
<1> QED BY <1>2, <1>3 DEF Init, Inv

\* What a job does next changes no table of connections.
LEMMA StatementKeepsInv ==
  ASSUME Inv, NEW j \in Jobs, Statement(j), exit = "no"
  PROVE  Inv'
<1> USE DEF Inv, TypeOK, Running
<1>1. CASE acquire(j)
  BY <1>1 DEF acquire, Jobs, JobState
<1>2. CASE answer(j) /\ job[j].left = 1
  BY <1>2, NoJobState DEF answer, Jobs
<1>3. CASE answer(j) /\ job[j].left # 1
  <2>1. job' = [job EXCEPT ![j] = [pc |-> "js", left |-> job[j].left - 1]]
    BY <1>3 DEF answer
  <2>2. job[j].left - 1 \in 1..MaxStatements
    BY <1>3, ServerAssumption DEF answer, JobState
  <2>3. mounted' = mounted
    BY <1>3 DEF answer
  <2> QED BY <1>3, <2>1, <2>2, <2>3, NoJobState DEF answer, Jobs
<1>4. CASE reject(j)
  <2>1. /\ job' = [job EXCEPT ![j] = NoJob]
        /\ UNCHANGED <<clock, open, mounted, listening, draining, timers>>
        /\ exit' = IF j = Startup THEN "startup failed" ELSE "no"
        /\ Running(j)
    BY <1>4 DEF reject
  <2>2. /\ job' \in [Jobs -> JobState]
        /\ \A i \in Jobs : job'[i] = IF i = j THEN NoJob ELSE job[i]
    BY <2>1, NoJobState
  <2>3. \A i \in Jobs : (job'[i].pc # "none") <=> job'[i].left > 0
    BY <2>2, NoJobState
  <2>4. exit' \in {"no", "graceful", "forced", "startup failed"}
    BY <2>1
  <2>5. TypeOK'
    BY <2>1, <2>2, <2>3, <2>4
  <2>6. (\A c \in Conns : Running(c) => mounted)' /\ (Running(Startup) => ~ mounted)'
    BY <2>1, <2>2, NoJobState DEF Jobs
  <2>7. (exit = "graceful" => draining)' /\ (exit = "startup failed" => ~ mounted)'
    BY <2>1
  <2> QED BY <2>1, <2>5, <2>6, <2>7
<1> QED BY <1>1, <1>2, <1>3, <1>4 DEF Statement

LEMMA ConnectionKeepsInv ==
  ASSUME Inv, NEW c \in Conns, exit = "no", connect(c) \/ request(c) \/ disconnect(c)
  PROVE  Inv'
<1> USE DEF Inv, TypeOK, Running
<1>1. CASE connect(c)
  BY <1>1 DEF connect
<1>2. CASE request(c)
  <2>1. PICK n \in 1..MaxStatements : job' = [job EXCEPT ![c] = [pc |-> "js", left |-> n]]
    BY <1>2 DEF request
  <2>2. n \in Nat /\ n > 0
    BY ServerAssumption
  <2>3. /\ job' \in [Jobs -> JobState]
        /\ \A i \in Jobs : job'[i] = IF i = c THEN [pc |-> "js", left |-> n] ELSE job[i]
    BY <2>1, NoJobState
  <2>4. \A i \in Jobs : (job'[i].pc # "none") <=> job'[i].left > 0
    BY <2>2, <2>3
  <2>5. TypeOK'
    BY <1>2, <2>3, <2>4 DEF request
  <2>6. mounted /\ UNCHANGED <<clock, open, mounted, listening, draining, timers, exit>>
    BY <1>2 DEF request
  <2>7. (Running(Startup) => ~ mounted)'
    BY <2>3, <2>6, ServerAssumption DEF Jobs
  <2> QED BY <2>5, <2>6, <2>7
<1>3. CASE disconnect(c)
  BY <1>3 DEF disconnect
<1> QED BY <1>1, <1>2, <1>3

LEMMA ShutdownKeepsInv ==
  ASSUME Inv, exit = "no",
         gracefulShutdown \/ closed \/ exitGracefully \/ forceExit \/ Tick
  PROVE  Inv'
<1> USE DEF Inv, TypeOK, Running
<1>1. CASE gracefulShutdown
  <2>1. clock + APP_FORCE_SHUTDOWN_SECOND \in 0..MaxTime
    BY <1>1, ServerAssumption DEF gracefulShutdown
  <2> QED BY <1>1, <2>1 DEF gracefulShutdown
<1>2. CASE closed
  BY <1>2 DEF closed
<1>3. CASE exitGracefully
  BY <1>3 DEF exitGracefully
<1>4. CASE forceExit
  BY <1>4 DEF forceExit
<1>5. CASE Tick
  BY <1>5, ServerAssumption DEF Tick
<1> QED BY <1>1, <1>2, <1>3, <1>4, <1>5

LEMMA NextKeepsInv == Inv /\ [Next]_vars => Inv'
<1> SUFFICES ASSUME Inv, [Next]_vars PROVE Inv'
  OBVIOUS
<1>1. CASE Next
  BY <1>1, StatementKeepsInv, ConnectionKeepsInv, ShutdownKeepsInv DEF Next
<1>2. CASE UNCHANGED vars
  BY <1>2 DEF vars, Inv, TypeOK, Running
<1> QED BY <1>1, <1>2

\* The inductive invariant, from the start of the process to its end.
THEOREM Invariance == Spec => []Inv
BY InitInv, NextKeepsInv, PTL DEF Spec

\* The state of the process is well formed at all times.
THEOREM TypeCorrect == Spec => []TypeOK
<1>1. Inv => TypeOK
  BY DEF Inv
<1> QED BY <1>1, Invariance, PTL

\* server.ts:11-17.  Only a forced exit leaves a client waiting, whatever signals,
\* requests, failures and clients that leave.
THEOREM WaitingClientsAreCutOffByForceOnly == Spec => []OnlyForceCutsOff
<1>1. Inv => OnlyForceCutsOff
  BY DEF Inv, TypeOK, OnlyForceCutsOff, Waiting
<1> QED BY <1>1, Invariance, PTL

\* app.ts:23-48.  No handler runs while the tables are being altered.
THEOREM SchemaComesFirst == Spec => []NoHandlerBeforeSchema
<1>1. Inv => NoHandlerBeforeSchema
  BY DEF Inv, NoHandlerBeforeSchema
<1> QED BY <1>1, Invariance, PTL
=============================================================================
